---- MODULE Spec2Model ----
(***************************************************************************)
(* Model of the image transforms of ai-watermark-protection (src/app.py):  *)
(* expand_image pads an image with a white margin on the right and bottom, *)
(* crop_image reconstructs the pre-padding size and crops back to it.      *)
(*                                                                         *)
(* An image is a record [kind, mode, size, px, palette]; px maps every     *)
(* coordinate <<x, y>> of the image to the tuple of its channel values.    *)
(* The Pillow calls the code makes (Image.new, paste, convert, crop) are   *)
(* modelled by what Pillow does to the pixels.                             *)
(*                                                                         *)
(* The encode paths follow: save_image_with_suffix of src/cli.py and the   *)
(* handlers of the UI of src/app.py, each a call on a set of files         *)
(* (EncodeSpec), and main of src/cli.py with its two batch functions, one  *)
(* step for each input (CliSpec).  Names and paths are sequences of        *)
(* characters, so that upper(), lower(), stem and suffix are computed.     *)
(***************************************************************************)
EXTENDS Integers, Sequences, FiniteSets, TLC

VARIABLES
    origin,   \* the image that was loaded
    image,    \* the image the next call is given
    arg,      \* the argument of the last call
    ret,      \* what the last call returned or raised
    ops,      \* the calls made so far, in order
    sizes,    \* the size of image after each of these calls
    fs,       \* the files: path -> content
    call,     \* the function called on the files, with its arguments
    reply,    \* what that call returned or raised, and its encoder calls
    requests, \* the single-image requests of the UI, served or waiting
    pc,       \* where the command line run is
    argv,     \* its parsed arguments
    all_input_paths,     \* the input files it collected
    log,                 \* what became of each input processed so far
    successful_outputs,  \* the output paths of its batch function
    exit_status          \* the status it exited with

imageVars == <<origin, image, arg, ret, ops, sizes>>

cliVars == <<pc, argv, all_input_paths, log, successful_outputs, exit_status>>

vars == <<origin, image, arg, ret, ops, sizes, fs, call, reply, requests,
          pc, argv, all_input_paths, log, successful_outputs, exit_status>>

\* no image is loaded
NoImages ==
    /\ origin = [kind |-> "None"]
    /\ image = [kind |-> "None"]
    /\ arg = [kind |-> "None"]
    /\ ret = [kind |-> "None"]
    /\ ops = <<>>
    /\ sizes = <<>>

\* no function is called on files
NoCalls ==
    /\ fs = <<>>
    /\ call = [fn |-> "none"]
    /\ reply = [kind |-> "None"]
    /\ requests = <<>>

\* no command line run is under way
NoRun ==
    /\ pc = "none"
    /\ argv = [kind |-> "None"]
    /\ all_input_paths = <<>>
    /\ log = <<>>
    /\ successful_outputs = <<>>
    /\ exit_status = -1

----------------------------------------------------------------------------
(* Bounds of the model *)

MaxWidth == 21
MaxHeight == 11
MaxSeed == 1
MaxOps == 2
MaxCycleOps == 10

----------------------------------------------------------------------------
(* Values *)

None == [kind |-> "None"]

ValueError == [kind |-> "ValueError", msg |-> "Image is too small to crop"]

NoPalette == <<>>

\* the colour table of the palette images the model draws (index i is Palette[i+1])
Palette == << <<0, 0, 0>>, <<255, 0, 0>>, <<10, 128, 255>> >>

Modes == {"RGB", "RGBA", "L", "LA", "P"}

IsImage(v) == v.kind = "Image"

Coords(size) == (0 .. size[1] - 1) \X (0 .. size[2] - 1)

----------------------------------------------------------------------------
(* Python arithmetic.  A float is modelled by the exact rational <<n, d>>  *)
(* it approximates: for the sizes an image can have the IEEE double lies   *)
(* within 1e-9 of that rational and never on the other side of an integer  *)
(* (n * 0.1, because the double 0.1 is above 1/10) or of a half-integer    *)
(* (n / 1.1, because 10n/11 is at least 1/22 away from every half).        *)

\* n * 0.1
TimesTenth(n) == <<n, 10>>

\* faulty variant: 90% of n, taken for the inverse of adding 10%
TimesNineTenths(n) == <<9 * n, 10>>

\* n / 1.1
DivideByOnePointOne(n) == <<10 * n, 11>>

\* int(q) for q >= 0: truncation
PyInt(q) == q[1] \div q[2]

\* round(q) for q >= 0: round half to even
PyRound(q) ==
    LET whole == q[1] \div q[2]
        rest == q[1] % q[2]
    IN  IF 2 * rest < q[2] THEN whole
        ELSE IF 2 * rest > q[2] THEN whole + 1
        ELSE IF whole % 2 = 0 THEN whole ELSE whole + 1

----------------------------------------------------------------------------
(* Pillow *)

\* Image.new(mode, size, color)
New(mode, size, color) ==
    [kind |-> "Image", mode |-> mode, size |-> size,
     px |-> [p \in Coords(size) |-> color], palette |-> NoPalette]

\* one pixel of Image.convert('RGB')
ConvertPixel(im, v) ==
    CASE im.mode = "RGB" -> v
      [] im.mode = "RGBA" -> <<v[1], v[2], v[3]>>
      [] im.mode = "L" -> <<v[1], v[1], v[1]>>
      [] im.mode = "LA" -> <<v[1], v[1], v[1]>>
      [] im.mode = "P" -> im.palette[v[1] + 1]

\* Image.convert('RGB')
ConvertRGB(im) ==
    [kind |-> "Image", mode |-> "RGB", size |-> im.size,
     px |-> [p \in Coords(im.size) |-> ConvertPixel(im, im.px[p])],
     palette |-> NoPalette]

\* Pillow's DIV255: (tmp = a + 128, ((tmp >> 8) + tmp) >> 8)
DIV255(a) == LET tmp == a + 128 IN ((tmp \div 256) + tmp) \div 256

\* Pillow's BLEND(mask, in1, in2)
BLEND(mask, in1, in2) == DIV255(in1 * (255 - mask) + in2 * mask)

\* dest.paste(im, box): the pixels of im replace those of dest from box on
Paste(dest, im, box) ==
    [dest EXCEPT !.px =
        [p \in Coords(dest.size) |->
            LET s == <<p[1] - box[1], p[2] - box[2]>>
            IN  IF s \in Coords(im.size) THEN im.px[s] ELSE dest.px[p]]]

\* dest.paste(im, box, mask) with an RGBA mask: every band of dest, alpha
\* included, is blended with im by the mask's alpha band
PasteMask(dest, im, box, mask) ==
    [dest EXCEPT !.px =
        [p \in Coords(dest.size) |->
            LET s == <<p[1] - box[1], p[2] - box[2]>>
            IN  IF s \in Coords(im.size)
                THEN [i \in 1 .. Len(dest.px[p]) |->
                        BLEND(mask.px[s][4], dest.px[p][i], im.px[s][i])]
                ELSE dest.px[p]]]

\* pixel of the bands a crop reads outside its source
Zero(mode) ==
    CASE mode = "RGB" -> <<0, 0, 0>>
      [] mode = "RGBA" -> <<0, 0, 0, 0>>
      [] mode = "LA" -> <<0, 0>>
      [] OTHER -> <<0>>

\* Image.crop((left, upper, right, lower))
Crop(im, box) ==
    LET size == <<box[3] - box[1], box[4] - box[2]>>
    IN  [kind |-> "Image", mode |-> im.mode, size |-> size,
         px |-> [p \in Coords(size) |->
                    LET s == <<p[1] + box[1], p[2] + box[2]>>
                    IN  IF s \in Coords(im.size) THEN im.px[s] ELSE Zero(im.mode)],
         palette |-> im.palette]

----------------------------------------------------------------------------
(* src/app.py *)

\* faulty variant: a white background without opacity
WhiteTransparent == <<255, 255, 255, 0>>

WhiteRGBA == <<255, 255, 255, 255>>

WhiteRGB == <<255, 255, 255>>

expand_width(im) == PyInt(TimesTenth(im.size[1]))

\* faulty variant: the height's margin computed from the width
expand_height_of_width(im) == PyInt(TimesTenth(im.size[1]))

expand_height(im) == PyInt(TimesTenth(im.size[2]))

new_size(im) == <<im.size[1] + expand_width(im), im.size[2] + expand_height(im)>>

ExpandRGBA(im) == PasteMask(New("RGBA", new_size(im), WhiteRGBA), im, <<0, 0>>, im)

ExpandToRGB(im) ==
    IF im.mode \notin {"RGB", "L"} THEN ConvertRGB(im)
    ELSE IF im.mode = "L" THEN ConvertRGB(im)
    ELSE im

ExpandRGB(im) == Paste(New("RGB", new_size(im), WhiteRGB), ExpandToRGB(im), <<0, 0>>)

expand_image(im) ==
    IF im = None THEN None
    ELSE IF im.mode = "RGBA" THEN ExpandRGBA(im)
    ELSE ExpandRGB(im)

\* faulty variant: every mode converted to RGB, RGBA included
CropToModeAlwaysRGB(im) == IF im.mode = "RGB" THEN im ELSE ConvertRGB(im)

CropToMode(im) ==
    IF im.mode = "RGBA" THEN im
    ELSE IF im.mode \notin {"RGB", "L"} THEN ConvertRGB(im)
    ELSE IF im.mode = "L" THEN ConvertRGB(im)
    ELSE im

\* faulty variant: the width reconstructed by truncation, as with int()
original_width_truncated(im) == PyInt(DivideByOnePointOne(im.size[1]))

original_width(im) == PyRound(DivideByOnePointOne(im.size[1]))

\* faulty variant: the height reconstructed from the width
original_height_of_width(im) == PyRound(DivideByOnePointOne(im.size[1]))

original_height(im) == PyRound(DivideByOnePointOne(im.size[2]))

\* faulty variant: only the width is checked
TooSmallWidthOnly(im) == original_width(im) <= 0

TooSmall(im) == original_width(im) <= 0 \/ original_height(im) <= 0

\* faulty variant: the box taken at the right and bottom edges instead of the origin
crop_box_from_far_corner(im) ==
    <<im.size[1] - original_width(im), im.size[2] - original_height(im),
      im.size[1], im.size[2]>>

crop_box(im) == <<0, 0, original_width(im), original_height(im)>>

crop_image(im) ==
    IF im = None THEN None
    ELSE IF TooSmall(im) THEN ValueError
    ELSE Crop(CropToMode(im), crop_box(im))

----------------------------------------------------------------------------
(* The images the model draws *)

Levels == <<0, 64, 128, 255>>

Alphas == <<255, 0, 128>>

Level(k) == Levels[(k % Len(Levels)) + 1]

Alpha(k) == Alphas[(k % Len(Alphas)) + 1]

SamplePixel(mode, p, seed) ==
    CASE mode = "RGB" -> <<Level(p[1] + seed), Level(p[2]), Level(p[1] + p[2] + seed)>>
      [] mode = "RGBA" -> <<Level(p[1] + seed), Level(p[2]), Level(p[1] + p[2]),
                             Alpha(p[1] + p[2] + seed)>>
      [] mode = "L" -> <<Level(p[1] + p[2] + seed)>>
      [] mode = "LA" -> <<Level(p[1] + seed), Alpha(p[2] + seed)>>
      [] mode = "P" -> <<(p[1] + p[2] + seed) % Len(Palette)>>

Sample(mode, size, seed) ==
    [kind |-> "Image", mode |-> mode, size |-> size,
     px |-> [p \in Coords(size) |-> SamplePixel(mode, p, seed)],
     palette |-> IF mode = "P" THEN Palette ELSE NoPalette]

Inputs ==
    {None} \cup
    {Sample(m, <<w, h>>, s) : m \in Modes, w \in 0 .. MaxWidth, h \in 0 .. MaxHeight,
                              s \in 0 .. MaxSeed}

----------------------------------------------------------------------------
(* The caller: an image is loaded and handed to expand_image or crop_image; *)
(* what a call returns is the next call's image.                            *)

Init ==
    /\ origin \in Inputs
    /\ image = origin
    /\ arg = None
    /\ ret = None
    /\ ops = <<>>
    /\ sizes = <<>>
    /\ NoCalls
    /\ NoRun

SizeOf(v) == IF IsImage(v) THEN v.size ELSE <<>>

Call(op, result, limit) ==
    /\ Len(ops) < limit
    /\ arg' = image
    /\ ret' = result
    /\ image' = IF result = ValueError THEN image ELSE result
    /\ ops' = Append(ops, op)
    /\ sizes' = Append(sizes, SizeOf(image'))
    /\ UNCHANGED <<origin, fs, call, reply, requests, cliVars>>

LastOp == IF ops = <<>> THEN "none" ELSE ops[Len(ops)]

ExpandImage == Call("expand_image", expand_image(image), MaxOps)

CropImage == Call("crop_image", crop_image(image), MaxOps)

Next == ExpandImage \/ CropImage

Spec == Init /\ [][Next]_vars

(* The caller that repeats the cycle: it alternates the two calls, starting *)
(* with either.                                                             *)

CycleExpand ==
    /\ LastOp # "expand_image"
    /\ Call("expand_image", expand_image(image), MaxCycleOps)

CycleCrop ==
    /\ LastOp # "crop_image"
    /\ Call("crop_image", crop_image(image), MaxCycleOps)

CycleNext == CycleExpand \/ CycleCrop

CycleSpec == Init /\ [][CycleNext]_vars

----------------------------------------------------------------------------
(* Text.  A str is the sequence of its characters; upper() and lower()     *)
(* change the letters and leave every other character alone.               *)

LowerCase == <<"a", "b", "c", "d", "e", "f", "g", "h", "i", "j", "k", "l", "m",
               "n", "o", "p", "q", "r", "s", "t", "u", "v", "w", "x", "y", "z">>

UpperCase == <<"A", "B", "C", "D", "E", "F", "G", "H", "I", "J", "K", "L", "M",
               "N", "O", "P", "Q", "R", "S", "T", "U", "V", "W", "X", "Y", "Z">>

Translate(c, from, to) ==
    IF \E i \in DOMAIN from : from[i] = c
    THEN to[CHOOSE i \in DOMAIN from : from[i] = c]
    ELSE c

\* str.upper()
Upper(str) == [i \in DOMAIN str |-> Translate(str[i], LowerCase, UpperCase)]

\* str.lower()
Lower(str) == [i \in DOMAIN str |-> Translate(str[i], UpperCase, LowerCase)]

PNG == <<"P", "N", "G">>
JPG == <<"J", "P", "G">>
JPEG == <<"J", "P", "E", "G">>
WEBP == <<"W", "E", "B", "P">>

DotPng == <<".", "p", "n", "g">>
DotJpg == <<".", "j", "p", "g">>
DotJpeg == <<".", "j", "p", "e", "g">>
DotWebp == <<".", "w", "e", "b", "p">>

EnlargeSuffix == <<"-", "e", "n", "l", "a", "r", "g", "e">>
RestoreSuffix == <<"-", "r", "e", "s", "t", "o", "r", "e">>

\* the value of an optional str argument that is None
NoStr == <<"<None>">>

\* the str is not None and not empty
Truthy(str) == str # NoStr /\ str # <<>>

----------------------------------------------------------------------------
(* pathlib.  A path is [parent, name]: a directory and a file name.        *)

\* the index of the dot that starts the suffix of a name, 0 when it has none
SuffixDot(name) ==
    LET dots == {i \in DOMAIN name : name[i] = "."}
        last == CHOOSE i \in dots : \A j \in dots : j <= i
    IN  IF dots = {} THEN 0
        ELSE IF 1 < last /\ last < Len(name) THEN last ELSE 0

\* Path.suffix
PathSuffix(path) ==
    IF SuffixDot(path.name) = 0 THEN <<>>
    ELSE SubSeq(path.name, SuffixDot(path.name), Len(path.name))

\* Path.stem
PathStem(path) ==
    IF SuffixDot(path.name) = 0 THEN path.name
    ELSE SubSeq(path.name, 1, SuffixDot(path.name) - 1)

\* Path.with_suffix
WithSuffix(path, suffix) == [path EXCEPT !.name = PathStem(path) \o suffix]

\* directory / name
Join(dir, name) == [parent |-> dir, name |-> name]

\* the value of an optional directory argument that is None
NoDir == "<None>"

----------------------------------------------------------------------------
(* Pillow encoders.  Image.save(target, format) hands the image to the     *)
(* encoder of the format; the JPEG encoder refuses the modes it cannot     *)
(* write, the PNG and WEBP encoders take every mode of the model.          *)

OSError == [kind |-> "OSError"]

JpegModes == {"L", "RGB"}

RefusedBy(format, im) == format = JPEG /\ im.mode \notin JpegModes

\* the bytes an encoder writes: the format and the image it was given
Encoded(format, im) == [kind |-> "File", format |-> format, image |-> im]

\* the record of one encoder call
EncoderCall(format, im) == [format |-> format, mode |-> im.mode]

\* image.split()[-1]
LastBand(im) ==
    [kind |-> "Image", mode |-> "L", size |-> im.size,
     px |-> [p \in Coords(im.size) |-> <<im.px[p][Len(im.px[p])]>>],
     palette |-> NoPalette]

\* dest.paste(im, mask=mask) with an L mask: the bands of dest are blended
\* with those of im by the mask
PasteMaskL(dest, im, mask) ==
    [dest EXCEPT !.px =
        [p \in Coords(dest.size) |->
            IF p \in Coords(im.size)
            THEN [i \in 1 .. Len(dest.px[p]) |->
                    BLEND(mask.px[p][1], dest.px[p][i], im.px[p][i])]
            ELSE dest.px[p]]]

\* RGB dest.paste(im) of an LA image: its grey value on the three bands
PasteLA(dest, im) ==
    [dest EXCEPT !.px =
        [p \in Coords(dest.size) |->
            IF p \in Coords(im.size)
            THEN <<im.px[p][1], im.px[p][1], im.px[p][1]>>
            ELSE dest.px[p]]]

\* the white RGB background with an RGBA or LA image pasted on it
Flatten(im) ==
    IF im.mode = "RGBA"
    THEN PasteMaskL(New("RGB", im.size, WhiteRGB), im, LastBand(im))
    ELSE PasteLA(New("RGB", im.size, WhiteRGB), im)

\* the directories nothing can be written to
ReadOnly == {"ro"}

\* one image.save(path, format)
SaveOf(path, format, im) == [path |-> path, format |-> format, image |-> im]

\* the save cannot open its file, or its encoder refuses the image
Fails(save) == save.path.parent \in ReadOnly \/ RefusedBy(save.format, save.image)

\* the index of the first save of a sequence that raises, 0 when none does
FirstFailure(saves) ==
    LET bad == {i \in DOMAIN saves : Fails(saves[i])}
    IN  IF bad = {} THEN 0 ELSE CHOOSE i \in bad : \A j \in bad : i <= j

\* the saves of a sequence that complete: those before the first that raises
Completed(saves) ==
    IF FirstFailure(saves) = 0 THEN saves
    ELSE SubSeq(saves, 1, FirstFailure(saves) - 1)

\* the saves of a sequence that reach their encoder
Attempted(saves) ==
    LET n == FirstFailure(saves)
    IN  IF n = 0 THEN saves
        ELSE IF saves[n].path.parent \in ReadOnly THEN SubSeq(saves, 1, n - 1)
        ELSE SubSeq(saves, 1, n)

EncoderCalls(saves) ==
    [i \in DOMAIN Attempted(saves) |->
        EncoderCall(Attempted(saves)[i].format, Attempted(saves)[i].image)]

\* the files after the saves of a sequence, made in order
FilesAfter(files, saves) ==
    LET done == Completed(saves)
        paths == {done[i].path : i \in DOMAIN done}
        last(q) == CHOOSE i \in DOMAIN done :
                      /\ done[i].path = q
                      /\ \A j \in DOMAIN done : done[j].path = q => j <= i
    IN  [q \in DOMAIN files \cup paths |->
            IF q \in paths THEN Encoded(done[last(q)].format, done[last(q)].image)
            ELSE files[q]]

----------------------------------------------------------------------------
(* src/cli.py: save_image_with_suffix *)

\* output_format and extension as lines 54-76 determine them
cli_format(input_path, output_format) ==
    IF Truthy(output_format)
    THEN LET fmt == Upper(output_format)
         IN  IF fmt = JPG THEN [format |-> JPG, extension |-> DotJpg]
             ELSE IF fmt = PNG THEN [format |-> PNG, extension |-> DotPng]
             ELSE IF fmt = WEBP THEN [format |-> WEBP, extension |-> DotWebp]
             ELSE [format |-> PNG, extension |-> DotPng]
    ELSE LET ext == Lower(PathSuffix(input_path))
         IN  IF ext \in {DotPng} THEN [format |-> PNG, extension |-> DotPng]
             ELSE IF ext \in {DotJpg, DotJpeg}
                  THEN [format |-> JPEG, extension |-> DotJpg]
             ELSE [format |-> PNG, extension |-> DotPng]

\* faulty variant: the extension of the input is kept, as get_output_path does
cli_output_path_input_suffix(input_path, suffix, output_dir, extension) ==
    Join(IF output_dir = NoDir THEN input_path.parent ELSE output_dir,
         PathStem(input_path) \o suffix \o PathSuffix(input_path))

cli_output_path(input_path, suffix, output_dir, extension) ==
    Join(IF output_dir = NoDir THEN input_path.parent ELSE output_dir,
         PathStem(input_path) \o suffix \o extension)

\* the save made: its path, encoder and image (lines 82-107)
cli_encoding(im, output_path, format) ==
    IF format = PNG THEN SaveOf(output_path, PNG, im)
    ELSE IF format \in {JPEG, JPG}
         THEN SaveOf(output_path, JPEG,
                     IF im.mode \in {"RGBA", "LA"} THEN Flatten(im) ELSE im)
    ELSE IF format = WEBP THEN SaveOf(output_path, WEBP, im)
    ELSE SaveOf(WithSuffix(output_path, DotPng), PNG, im)

\* save_image_with_suffix on the files given: the files afterwards, the path
\* returned or the error raised, and the encoder calls made
save_image_with_suffix(files, im, input_path, suffix, output_dir, output_format) ==
    LET chosen == cli_format(input_path, output_format)
        output_path == cli_output_path(input_path, suffix, output_dir, chosen.extension)
        save == cli_encoding(im, output_path, chosen.format)
    IN  [files |-> FilesAfter(files, <<save>>),
         returned |-> IF Fails(save) THEN OSError ELSE save.path,
         calls |-> EncoderCalls(<<save>>)]

----------------------------------------------------------------------------
(* The files the model starts from, in the order their directory lists them *)

Truncated == [kind |-> "Truncated"]

Garbage == [kind |-> "Garbage"]

\* the 1 x 1 images of every mode
SmallImages == {Sample(m, <<1, 1>>, s) : m \in Modes, s \in 0 .. MaxSeed}

Listing ==
    << [path |-> Join("d1", <<"a", ".", "p", "n", "g">>), content |-> Encoded(PNG, Sample("RGBA", <<1, 1>>, 1))],
       [path |-> Join("d1", <<"a", ".", "j", "p", "g">>), content |-> Encoded(JPEG, Sample("RGB", <<1, 1>>, 0))],
       [path |-> Join("d1", <<"t", ".", "p", "n", "g">>), content |-> Truncated],
       [path |-> Join("d1", <<"c", ".", "w", "e", "b", "p">>), content |-> Encoded(WEBP, Sample("RGBA", <<1, 1>>, 0))],
       [path |-> Join("d1", <<"n", ".", "t", "x", "t">>), content |-> Garbage],
       [path |-> Join("ro", <<"l", "a", ".", "p", "n", "g">>), content |-> Encoded(PNG, Sample("LA", <<1, 1>>, 1))],
       [path |-> Join("ro", <<"b", ".", "J", "P", "E", "G">>), content |-> Encoded(JPEG, Sample("L", <<1, 1>>, 0))] >>

InitialFiles ==
    [q \in {Listing[i].path : i \in DOMAIN Listing} |->
        Listing[CHOOSE i \in DOMAIN Listing : Listing[i].path = q].content]

----------------------------------------------------------------------------
(* src/app.py: the handlers of the UI *)

\* the transform of the name, applied
Transform(transform, im) ==
    IF transform = "expand_image" THEN expand_image(im) ELSE crop_image(im)

AttributeError == [kind |-> "AttributeError"]

UnidentifiedImageError == [kind |-> "UnidentifiedImageError"]

\* tempfile.gettempdir()
TempDir == "tmp"

\* datetime.now().strftime("%Y%m%d_%H%M%S"), the clock read once
Timestamp == <<"t">>

Digits == <<"0", "1", "2", "3", "4", "5", "6", "7", "8", "9">>

\* f"{idx:03d}"
Pad3(idx) ==
    <<Digits[((idx \div 100) % 10) + 1], Digits[((idx \div 10) % 10) + 1],
      Digits[(idx % 10) + 1]>>

\* faulty variant: the result is left in its mode whatever the format
to_selected_format_unchanged(im, fmt) == im

\* "Convert image to the selected format for proper download", lines 120-137:
\* fmt is output_format.upper()
to_selected_format(im, fmt) ==
    IF fmt = JPG
    THEN IF im.mode \in {"RGBA", "LA"} THEN Flatten(im)
         ELSE IF im.mode \notin {"RGB"} THEN ConvertRGB(im)
         ELSE im
    ELSE im

\* process_expand_single and process_crop_single: None for no image and for
\* every exception
process_single(transform, im, output_format) ==
    IF im = None THEN None
    ELSE IF Transform(transform, im) = ValueError THEN None
    ELSE IF output_format = NoStr THEN None
    ELSE to_selected_format(Transform(transform, im), Upper(output_format))

\* process_expand_batch and process_crop_batch on the images opened, for an
\* output_format that is a str: the images whose processing raises are left out
process_batch(transform, images, output_format) ==
    LET Passes(c) == c.kind = "File" /\ Transform(transform, c.image) # ValueError
        passed == SelectSeq(images, Passes)
    IN  [i \in DOMAIN passed |->
            to_selected_format(Transform(transform, passed[i].image), Upper(output_format))]

\* faulty variant: a name that is not known gives PNG
ui_format_default_png(output_format) ==
    LET fmt == IF Truthy(output_format) THEN Upper(output_format) ELSE WEBP
    IN  IF fmt = JPG \/ fmt = JPEG
        THEN [name |-> fmt, ext |-> DotJpg, format_name |-> JPEG]
        ELSE IF fmt = WEBP
        THEN [name |-> fmt, ext |-> DotWebp, format_name |-> WEBP]
        ELSE [name |-> fmt, ext |-> DotPng, format_name |-> PNG]

\* the format name, the extension and the encoder chosen for output_format
\* (lines 288-299, 500-510, 556-565)
ui_format(output_format) ==
    LET fmt == IF Truthy(output_format) THEN Upper(output_format) ELSE WEBP
    IN  IF fmt = JPG \/ fmt = JPEG
        THEN [name |-> fmt, ext |-> DotJpg, format_name |-> JPEG]
        ELSE IF fmt = PNG
        THEN [name |-> fmt, ext |-> DotPng, format_name |-> PNG]
        ELSE [name |-> fmt, ext |-> DotWebp, format_name |-> WEBP]

\* the save of lines 519-531 and 573-584
ui_encoding(im, path, chosen) ==
    IF chosen.name = JPG \/ chosen.name = JPEG
    THEN SaveOf(path, chosen.format_name,
                IF im.mode \in {"RGBA", "LA"} THEN Flatten(im) ELSE im)
    ELSE SaveOf(path, chosen.format_name, im)

\* the save of lines 315-327, into the zip file
zip_encoding(im, path, chosen) ==
    IF chosen.name = JPG
    THEN SaveOf(path, chosen.format_name,
                IF im.mode \in {"RGBA", "LA"} THEN Flatten(im) ELSE im)
    ELSE SaveOf(path, chosen.format_name, im)

ZipSuffix == <<".", "z", "i", "p">>

zip_path(prefix) == Join(TempDir, prefix \o <<"_", "b", "a", "t", "c", "h", "_">> \o Timestamp \o ZipSuffix)

\* io.BytesIO(): the buffer an entry of the zip file is encoded into
BytesIO == "BytesIO"

Zip(entries) == [kind |-> "Zip", entries |-> entries]

\* create_zip_from_images: the files afterwards, the path returned or None,
\* and the encoder calls made.  An exception leaves the zip file with the
\* entries written before it.
create_zip_from_images(files, images, output_format, prefix) ==
    LET chosen == ui_format(output_format)
        saves == [i \in DOMAIN images |->
                    zip_encoding(images[i],
                                 Join(BytesIO, prefix \o <<"_">> \o Pad3(i) \o chosen.ext),
                                 chosen)]
        done == Completed(saves)
        entries == [i \in DOMAIN done |->
                      [name |-> done[i].path.name,
                       content |-> Encoded(done[i].format, done[i].image)]]
    IN  IF images = <<>>
        THEN [files |-> files, returned |-> None, calls |-> <<>>]
        ELSE [files |-> [q \in DOMAIN files \cup {zip_path(prefix)} |->
                            IF q = zip_path(prefix) THEN Zip(entries) ELSE files[q]],
              returned |-> IF FirstFailure(saves) = 0 THEN zip_path(prefix) ELSE None,
              calls |-> EncoderCalls(saves)]

\* process_and_save_expand and process_and_save_crop: name is 'image-enlarge'
\* or 'image-restore'.  The temporary file of line 513 is removed at line 534.
process_and_save(files, transform, name, im, output_format) ==
    LET processed_image == process_single(transform, im, output_format)
        chosen == ui_format(output_format)
        final_name == Join(TempDir, name \o chosen.ext)
        save == ui_encoding(processed_image, final_name, chosen)
    IN  IF im = None \/ processed_image = None
        THEN [files |-> files, returned |-> [image |-> None, file |-> None], calls |-> <<>>]
        ELSE [files |-> FilesAfter(files, <<save>>),
              returned |-> IF Fails(save) THEN OSError
                           ELSE [image |-> processed_image, file |-> final_name],
              calls |-> EncoderCalls(<<save>>)]

Min(a, b) == IF a < b THEN a ELSE b

\* process_files_expand and process_files_crop: uploads are the paths of the
\* files uploaded
process_files(files, transform, suffix, prefix, uploads, output_format) ==
    LET original_filenames == [i \in DOMAIN uploads |-> PathStem(uploads[i])]
        images == [i \in DOMAIN uploads |-> files[uploads[i]]]
        processed_images == process_batch(transform, images, output_format)
        zipped == create_zip_from_images(files, processed_images, output_format, prefix)
        chosen == ui_format(output_format)
        saves == [i \in 1 .. Min(Len(processed_images), Len(original_filenames)) |->
                    ui_encoding(processed_images[i],
                                Join(TempDir, original_filenames[i] \o suffix \o chosen.ext),
                                chosen)]
    IN  IF uploads = <<>>
        THEN [files |-> files, returned |-> [gallery |-> <<>>, zip |-> None], calls |-> <<>>]
        ELSE IF \E i \in DOMAIN images : images[i] = Garbage
        THEN [files |-> files, returned |-> UnidentifiedImageError, calls |-> <<>>]
        ELSE IF output_format = NoStr
        THEN [files |-> files, returned |-> AttributeError, calls |-> <<>>]
        ELSE [files |-> FilesAfter(zipped.files, saves),
              returned |-> IF FirstFailure(saves) # 0 THEN OSError
                           ELSE [gallery |-> [i \in DOMAIN saves |-> saves[i].path],
                                 zip |-> zipped.returned],
              calls |-> zipped.calls \o EncoderCalls(saves)]

----------------------------------------------------------------------------
(* Calls of save_image_with_suffix and of the handlers of the UI, each on  *)
(* the files above.                                                        *)

BMP == <<"B", "M", "P">>

FormatNames ==
    {NoStr, <<>>, PNG, Lower(PNG), JPG, Lower(JPG), <<"J", "p", "g">>,
     JPEG, Lower(JPEG), WEBP, Lower(WEBP), BMP}

FileNames ==
    {<<"a", ".", "p", "n", "g">>, <<"a", ".", "j", "p", "g">>, <<"b", ".", "J", "P", "E", "G">>, <<"c", ".", "w", "e", "b", "p">>,
     <<"d", ".", "t", "i", "f">>, <<"e">>, <<".", "p", "n", "g">>, <<"g", ".", "t", "a", "r", ".", "P", "N", "G">>}

SavePaths == {Join(d, n) : d \in {"d1", "ro"}, n \in FileNames}

EncodeInit ==
    /\ NoImages
    /\ NoRun
    /\ fs = InitialFiles
    /\ call = [fn |-> "none"]
    /\ reply = [kind |-> "None"]
    /\ requests = <<>>

\* the call c made, with what it did
Handled(c, r) ==
    /\ call' = c
    /\ reply' = [returned |-> r.returned, calls |-> r.calls]
    /\ fs' = r.files
    /\ UNCHANGED <<imageVars, requests, cliVars>>

SaveImageWithSuffix ==
    /\ call.fn = "none"
    /\ \E im \in SmallImages, input_path \in SavePaths,
          suffix \in {EnlargeSuffix, RestoreSuffix},
          output_dir \in {NoDir, "out"}, output_format \in FormatNames :
          Handled([fn |-> "save_image_with_suffix", image |-> im,
                   input_path |-> input_path, suffix |-> suffix,
                   output_dir |-> output_dir, output_format |-> output_format],
                  save_image_with_suffix(fs, im, input_path, suffix,
                                         output_dir, output_format))

\* the dropdown of the UI offers WEBP, PNG and JPG; the handlers are functions
\* and take every name
ProcessAndSaveExpand ==
    /\ call.fn = "none"
    /\ \E im \in SmallImages \cup {None}, output_format \in FormatNames :
          Handled([fn |-> "process_and_save_expand", image |-> im,
                   output_format |-> output_format],
                  process_and_save(fs, "expand_image", <<"i", "m", "a", "g", "e", "-", "e", "n", "l", "a", "r", "g", "e">>, im, output_format))

ProcessAndSaveCrop ==
    /\ call.fn = "none"
    /\ \E im \in SmallImages \cup {None}, output_format \in FormatNames :
          Handled([fn |-> "process_and_save_crop", image |-> im,
                   output_format |-> output_format],
                  process_and_save(fs, "crop_image", <<"i", "m", "a", "g", "e", "-", "r", "e", "s", "t", "o", "r", "e">>, im, output_format))

MaxUploads == 2

\* the sequences of 0 .. MaxUploads of the files
Uploads ==
    UNION {[1 .. n -> DOMAIN InitialFiles] : n \in 0 .. MaxUploads}

ProcessFilesExpand ==
    /\ call.fn = "none"
    /\ \E uploads \in Uploads, output_format \in FormatNames :
          Handled([fn |-> "process_files_expand", files |-> uploads,
                   output_format |-> output_format],
                  process_files(fs, "expand_image", EnlargeSuffix, <<"e", "x", "p", "a", "n", "d", "e", "d">>,
                                uploads, output_format))

ProcessFilesCrop ==
    /\ call.fn = "none"
    /\ \E uploads \in Uploads, output_format \in FormatNames :
          Handled([fn |-> "process_files_crop", files |-> uploads,
                   output_format |-> output_format],
                  process_files(fs, "crop_image", RestoreSuffix, <<"r", "e", "s", "t", "o", "r", "e", "d">>,
                                uploads, output_format))

EncodeNext ==
    \/ SaveImageWithSuffix
    \/ ProcessAndSaveExpand
    \/ ProcessAndSaveCrop
    \/ ProcessFilesExpand
    \/ ProcessFilesCrop

EncodeSpec == EncodeInit /\ [][EncodeNext]_vars

----------------------------------------------------------------------------
(* A session of the UI: two single-image requests, each served by the      *)
(* whole of its handler, in either order.  The handlers write into the one *)
(* temporary directory, which is empty at the start.                       *)

\* the formats the dropdowns offer
DropdownFormats == {WEBP, PNG, JPG}

SingleHandlers == {"process_and_save_expand", "process_and_save_crop"}

\* the requests of the session
TwoRequests == {1, 2}

SessionInit ==
    /\ NoImages
    /\ NoRun
    /\ fs = <<>>
    /\ call = [fn |-> "none"]
    /\ reply = [kind |-> "None"]
    /\ requests \in [TwoRequests ->
                        [fn : SingleHandlers, image : SmallImages \cup {None},
                         output_format : DropdownFormats,
                         pc : {"called"}, returned : {None}]]

\* request i served: what its handler did to the files, and what it returned
Served(i, r) ==
    /\ fs' = r.files
    /\ requests' = [requests EXCEPT ![i].pc = "returned", ![i].returned = r.returned]
    /\ UNCHANGED <<imageVars, call, reply, cliVars>>

ServeExpand ==
    \E i \in DOMAIN requests :
        /\ requests[i].pc = "called"
        /\ requests[i].fn = "process_and_save_expand"
        /\ Served(i, process_and_save(fs, "expand_image", <<"i", "m", "a", "g", "e", "-", "e", "n", "l", "a", "r", "g", "e">>,
                                      requests[i].image, requests[i].output_format))

ServeCrop ==
    \E i \in DOMAIN requests :
        /\ requests[i].pc = "called"
        /\ requests[i].fn = "process_and_save_crop"
        /\ Served(i, process_and_save(fs, "crop_image", <<"i", "m", "a", "g", "e", "-", "r", "e", "s", "t", "o", "r", "e">>,
                                      requests[i].image, requests[i].output_format))

SessionNext == ServeExpand \/ ServeCrop

SessionSpec == SessionInit /\ [][SessionNext]_vars

----------------------------------------------------------------------------
(* src/cli.py: the batch functions and main *)

\* faulty variant: the output file is opened for writing before the transform
process_item_opens_first(files, transform, suffix, input_path, output_dir, output_format) ==
    LET content == files[input_path]
        expected == cli_output_path(input_path, suffix, output_dir,
                                    cli_format(input_path, output_format).extension)
        saved == save_image_with_suffix(files, Transform(transform, content.image), input_path,
                                        suffix, output_dir, output_format)
    IN  IF content.kind \notin {"File", "Truncated"}
        THEN [files |-> files, outcome |-> "open_error", output_path |-> None]
        ELSE IF content.kind = "Truncated"
        THEN [files |-> [q \in DOMAIN files \cup {expected} |->
                            IF q = expected THEN Truncated ELSE files[q]],
              outcome |-> "transform_error", output_path |-> None]
        ELSE IF saved.returned = OSError
        THEN [files |-> saved.files, outcome |-> "save_error", output_path |-> None]
        ELSE [files |-> saved.files, outcome |-> "ok", output_path |-> saved.returned]

\* one iteration of the loop of process_enlarge_images (lines 126-140) or of
\* process_restore_images (lines 159-173): Image.open, the transform, which
\* loads the pixels, and save_image_with_suffix, each of which may raise
process_item(files, transform, suffix, input_path, output_dir, output_format) ==
    LET content == files[input_path]
        saved == save_image_with_suffix(files, Transform(transform, content.image), input_path,
                                        suffix, output_dir, output_format)
    IN  IF content.kind \notin {"File", "Truncated"}
        THEN [files |-> files, outcome |-> "open_error", output_path |-> None]
        ELSE IF content.kind = "Truncated"
        THEN [files |-> files, outcome |-> "transform_error", output_path |-> None]
        ELSE IF Transform(transform, content.image) = ValueError
        THEN [files |-> files, outcome |-> "transform_error", output_path |-> None]
        ELSE IF saved.returned = OSError
        THEN [files |-> saved.files, outcome |-> "save_error", output_path |-> None]
        ELSE [files |-> saved.files, outcome |-> "ok", output_path |-> saved.returned]

\* faulty variant: a path is appended for every input
successful_after_every_item(successful, item) == Append(successful, item.output_path)

\* successful_outputs after an iteration (line 135)
successful_after(successful, item) ==
    IF item.outcome = "ok" THEN Append(successful, item.output_path) ELSE successful

\* a directory as a path
Dir(dir) == Join(dir, <<>>)

\* the directories there are
Dirs == {"d1", "ro", "empty"}

\* image_extensions
image_extensions ==
    {DotPng, DotJpg, DotJpeg, <<".", "b", "m", "p">>, <<".", "t", "i", "f", "f">>, <<".", "t", "i", "f">>, DotWebp}

\* the paths the directories list, in their order
ListingPaths == [i \in DOMAIN Listing |-> Listing[i].path]

\* the name ends with the tail
EndsWith(name, tail) ==
    /\ Len(tail) <= Len(name)
    /\ SubSeq(name, Len(name) - Len(tail) + 1, Len(name)) = tail

\* collect_image_paths: a file, the image files of a directory, or the files
\* a pattern <dir>/*<tail> matches
collect_image_paths(files, input_spec) ==
    LET InDir(q) == q.parent = input_spec.parent /\ q \in DOMAIN files
        IsImageFile(q) == InDir(q) /\ Lower(PathSuffix(q)) \in image_extensions
        Matched(q) == /\ InDir(q)
                      /\ input_spec.name # <<>>
                      /\ Head(input_spec.name) = "*"
                      /\ EndsWith(q.name, Tail(input_spec.name))
    IN  IF input_spec \in DOMAIN files THEN <<input_spec>>
        ELSE IF input_spec.name = <<>> /\ input_spec.parent \in Dirs
        THEN SelectSeq(ListingPaths, IsImageFile)
        ELSE SelectSeq(ListingPaths, Matched)

\* all_input_paths (lines 266-272)
RECURSIVE collect_all(_, _)
collect_all(files, specs) ==
    IF specs = <<>> THEN <<>>
    ELSE collect_image_paths(files, Head(specs)) \o collect_all(files, Tail(specs))

\* faulty variant: failure only when nothing succeeded
exit_status_none_succeeded(successful, inputs) ==
    IF Len(successful) = 0 THEN 1 ELSE 0

\* the status main ends with after the batch (lines 299-300)
exit_status_of(successful, inputs) ==
    IF Len(successful) < Len(inputs) THEN 1 ELSE 0

MaxSpecs == 2

\* what the command line may name
InputSpecs ==
    {Join("d1", <<"a", ".", "p", "n", "g">>), Join("d1", <<"n", ".", "t", "x", "t">>), Join("d1", <<"t", ".", "p", "n", "g">>), Join("ro", <<"l", "a", ".", "p", "n", "g">>),
     Dir("d1"), Dir("ro"), Dir("empty"),
     Join("d1", <<"*", ".", "p", "n", "g">>), Join("d1", <<"z", "z", ".", "p", "n", "g">>)}

\* parser.parse_args(): --format is one of PNG, JPG and WEBP, or absent
CliInit ==
    /\ NoImages
    /\ fs = InitialFiles
    /\ call = [fn |-> "none"]
    /\ reply = [kind |-> "None"]
    /\ requests = <<>>
    /\ pc = "start"
    /\ argv \in [operation : {"enlarge", "restore"},
                  input : UNION {[1 .. n -> InputSpecs] : n \in 1 .. MaxSpecs},
                  output_dir : {NoDir, "out"},
                  format : {NoStr, PNG, JPG, WEBP}]
    /\ all_input_paths = <<>>
    /\ log = <<>>
    /\ successful_outputs = <<>>
    /\ exit_status = -1

\* lines 261-276: the output directory is made, the inputs are collected, and
\* main exits with 1 when there are none
Collect ==
    /\ pc = "start"
    /\ all_input_paths' = collect_all(fs, argv.input)
    /\ IF all_input_paths' = <<>>
       THEN pc' = "exit" /\ exit_status' = 1
       ELSE pc' = "process" /\ UNCHANGED exit_status
    /\ UNCHANGED <<imageVars, fs, call, reply, requests, argv, log, successful_outputs>>

\* the iteration for the next input, with what it did
Iterated(item) ==
    /\ fs' = item.files
    /\ log' = Append(log, [input |-> all_input_paths[Len(log) + 1],
                           outcome |-> item.outcome])
    /\ successful_outputs' = successful_after(successful_outputs, item)
    /\ UNCHANGED <<imageVars, call, reply, requests, pc, argv, all_input_paths, exit_status>>

ProcessEnlarge ==
    /\ pc = "process"
    /\ argv.operation = "enlarge"
    /\ Len(log) < Len(all_input_paths)
    /\ Iterated(process_item(fs, "expand_image", EnlargeSuffix,
                             all_input_paths[Len(log) + 1],
                             argv.output_dir, argv.format))

ProcessRestore ==
    /\ pc = "process"
    /\ argv.operation # "enlarge"
    /\ Len(log) < Len(all_input_paths)
    /\ Iterated(process_item(fs, "crop_image", RestoreSuffix,
                             all_input_paths[Len(log) + 1],
                             argv.output_dir, argv.format))

\* lines 289-300
Summary ==
    /\ pc = "process"
    /\ Len(log) = Len(all_input_paths)
    /\ exit_status' = exit_status_of(successful_outputs, all_input_paths)
    /\ pc' = "exit"
    /\ UNCHANGED <<imageVars, fs, call, reply, requests, argv, all_input_paths, log,
                   successful_outputs>>

CliNext == Collect \/ ProcessEnlarge \/ ProcessRestore \/ Summary

CliSpec == CliInit /\ [][CliNext]_vars

----------------------------------------------------------------------------
(* Properties *)

Positive(im) == IsImage(im) /\ im.size[1] >= 1 /\ im.size[2] >= 1

Expanded == LastOp = "expand_image" /\ IsImage(arg)

Cropped == LastOp = "crop_image" /\ IsImage(arg)

RoundTrip == ops = <<"expand_image", "crop_image">> /\ IsImage(origin)

HasAlpha(im) == im.mode \in {"RGBA", "LA"}

Abs(n) == IF n < 0 THEN -n ELSE n

\* m = floor(n / 10)
IsFloorOfTenth(m, n) == 10 * m <= n /\ n < 10 * (m + 1)

\* m is the integer nearest to 10 * n / 11
IsNearestToTenElevenths(m, n) == 2 * Abs(11 * m - 10 * n) < 11

C3_RoundTripWithinOne ==
    (RoundTrip /\ Positive(origin)) =>
        /\ IsImage(ret)
        /\ Abs(ret.size[1] - origin.size[1]) <= 1
        /\ Abs(ret.size[2] - origin.size[2]) <= 1

C3_Witness ==
    /\ RoundTrip
    /\ origin.size = <<19, 10>>
    /\ IsImage(ret) /\ ret.size = <<18, 10>>

\* the source pixel as the result's mode shows it: the pixel itself when the
\* mode is kept, its colour when the source was promoted to RGB
SourcePixel(src, out, p) ==
    IF out.mode = src.mode THEN src.px[p] ELSE ConvertPixel(src, src.px[p])

\* C4 (as claimed): every pixel of the source region of expand_image(source)
\* equals the source pixel in every channel, for RGBA sources with alpha
\* below 255 as well.
C4_SourceRegionVerbatim ==
    Expanded =>
        \A p \in Coords(arg.size) : ret.px[p] = SourcePixel(arg, ret, p)

\* C5 (as claimed): expanding an RGBA image yields an RGBA image with alpha
\* 255 in the padded region and the source's own alpha in the source region.
C5_AlphaPreserved ==
    (Expanded /\ arg.mode = "RGBA") =>
        /\ ret.mode = "RGBA"
        /\ \A p \in Coords(ret.size) \ Coords(arg.size) : ret.px[p][4] = 255
        /\ \A p \in Coords(arg.size) : ret.px[p][4] = arg.px[p][4]

\* C6: every pixel of expand_image(source) outside the source region is the
\* background fill, (255,255,255) or (255,255,255,255) with alpha.
C6_BackgroundFill ==
    Expanded =>
        \A p \in Coords(ret.size) \ Coords(arg.size) :
            ret.px[p] = IF HasAlpha(ret) THEN <<255, 255, 255, 255>>
                        ELSE <<255, 255, 255>>

C6_Witness ==
    /\ Expanded
    /\ arg.mode = "RGBA" /\ arg.size = <<20, 10>>
    /\ ret.size = <<22, 11>>
    /\ ret.px[<<21, 3>>] = <<255, 255, 255, 255>>
    /\ ret.px[<<4, 10>>] = <<255, 255, 255, 255>>

\* C7: whenever the width or height crop_image reconstructs is <= 0 it
\* raises ValueError, and every image it returns has width and height >= 1.
C7_TooSmallRaises ==
    Cropped =>
        /\ (\/ 2 * 10 * arg.size[1] < 11
            \/ 2 * 10 * arg.size[2] < 11) => ret = ValueError
        /\ IsImage(ret) => (ret.size[1] >= 1 /\ ret.size[2] >= 1)

C7_Witness ==
    /\ Cropped
    /\ arg.size = <<5, 0>>
    /\ ret = ValueError

CroppedToImage == Cropped /\ IsImage(ret)

\* C9 (as claimed): each pixel (x, y) of crop_image(image) is bit-identical
\* to pixel (x, y) of the input image, with no value conversion.
C9_CropPixelsIdentical ==
    CroppedToImage => \A p \in Coords(ret.size) : ret.px[p] = arg.px[p]

\* C9 (amended): each pixel (x, y) of crop_image(image) is pixel (x, y) of
\* the input: bit-identical for RGB and RGBA inputs, and its conversion to
\* RGB for the other modes (grey value repeated, alpha dropped, palette
\* entry looked up); the extraction is origin-aligned and not resampled.
C9_CropPixelsOfInput ==
    CroppedToImage =>
        \A p \in Coords(ret.size) :
            /\ p \in Coords(arg.size)
            /\ LET v == arg.px[p]
               IN  ret.px[p] =
                     CASE arg.mode \in {"RGB", "RGBA"} -> v
                       [] arg.mode \in {"L", "LA"} -> <<v[1], v[1], v[1]>>
                       [] arg.mode = "P" -> arg.palette[v[1] + 1]

C9_Witness ==
    /\ CroppedToImage
    /\ arg.mode = "P" /\ arg.size = <<21, 11>>
    /\ arg.px[<<17, 9>>] = <<2>>
    /\ ret.px[<<17, 9>>] = <<10, 128, 255>>

\* C10 (as claimed): crop_image returns an image with the mode of its input,
\* for every input mode.
C10_CropKeepsMode ==
    CroppedToImage => ret.mode = arg.mode

\* C10 (amended): crop_image returns an RGBA image for an RGBA input and an
\* RGB image for every other input mode: the mode is kept for RGB and RGBA
\* inputs only.
C10_CropModeRGBOrRGBA ==
    CroppedToImage => ret.mode = IF arg.mode = "RGBA" THEN "RGBA" ELSE "RGB"

C10_Witness ==
    /\ CroppedToImage
    /\ arg.mode = "LA" /\ arg.size = <<11, 11>>
    /\ ret.mode = "RGB" /\ ret.size = <<10, 10>>

----------------------------------------------------------------------------
(* Properties of the repeated cycle (CycleSpec) *)

\* the size of the image before call n
SizeBefore(n) == IF n = 1 THEN origin.size ELSE sizes[n - 1]

\* the calls that end a round trip (expand then crop) after the first one
FurtherRoundTrips == {n \in 4 .. Len(ops) : ops[n] = "crop_image"}

CropFirst == ops # <<>> /\ ops[1] = "crop_image"

\* C8 (as claimed): repeating crop, expand, crop, expand, ... from an image
\* of positive size, every round trip after the first expand-then-crop
\* returns the size the first one returned, and no cycle changes an axis
\* by more than 1 pixel.
C8_StableAfterFirstRoundTrip ==
    (Positive(origin) /\ CropFirst) =>
        /\ \A n \in FurtherRoundTrips : sizes[n] = sizes[n - 2]
        /\ \A n \in 2 .. Len(ops) : \A i \in 1 .. 2 :
              Abs(sizes[n][i] - SizeBefore(n - 1)[i]) <= 1

\* C8 (amended): repeating crop, expand, crop, expand, ... from an image of
\* positive size, every round trip after the first returns, on each axis,
\* the size of the round trip before it or 1 pixel less; once a round trip
\* returns the size of the one before it every later one does; and no
\* cycle changes an axis by more than 1 pixel.
C8_RoundTripsShrinkByAtMostOne ==
    (Positive(origin) /\ CropFirst) =>
        /\ \A n \in FurtherRoundTrips : \A i \in 1 .. 2 :
              sizes[n - 2][i] - sizes[n][i] \in {0, 1}
        /\ \A n \in FurtherRoundTrips :
              (n - 2 \in FurtherRoundTrips /\ sizes[n - 2] = sizes[n - 4])
                  => sizes[n] = sizes[n - 2]
        /\ \A n \in 2 .. Len(ops) : \A i \in 1 .. 2 :
              Abs(sizes[n][i] - SizeBefore(n - 1)[i]) <= 1

C8_Witness ==
    /\ IsImage(origin) /\ origin.size = <<19, 8>>
    /\ ops = <<"crop_image", "expand_image", "crop_image", "expand_image",
               "crop_image", "expand_image", "crop_image">>
    /\ sizes = << <<17, 7>>, <<18, 7>>, <<16, 6>>, <<17, 6>>, <<15, 5>>,
                 <<16, 5>>, <<15, 5>> >>

----------------------------------------------------------------------------
(* Further properties of single calls and of the round trip (Spec) *)

\* C11 (as claimed): expand_image returns an image with an alpha channel
\* exactly when its input has one, in any alpha-bearing mode, and a
\* grayscale input without alpha comes back as RGB.
C11_AlphaIffInputAlpha ==
    (Expanded /\ Positive(arg)) =>
        /\ HasAlpha(ret) <=> HasAlpha(arg)
        /\ arg.mode = "L" => ret.mode = "RGB"

----------------------------------------------------------------------------
(* save_image_with_suffix *)

Saved == call.fn = "save_image_with_suffix" /\ reply.returned # OSError

\* the extension of an encoder's format
ExtensionOf(format) ==
    IF format = PNG THEN DotPng
    ELSE IF format = JPEG THEN DotJpg
    ELSE IF format = WEBP THEN DotWebp
    ELSE <<>>

\* the directory the result belongs in
TargetDir == IF call.output_dir = NoDir THEN call.input_path.parent ELSE call.output_dir

C17_JpgAndJpegAlike ==
    (Saved /\ Truthy(call.output_format)) =>
        LET name == Upper(call.output_format)
            written == fs[reply.returned]
        IN  /\ name \in {JPG, JPEG} =>
                  (written.format = JPEG /\ PathSuffix(reply.returned) = DotJpg)
            /\ name = PNG =>
                  (written.format = PNG /\ PathSuffix(reply.returned) = DotPng)
            /\ name = WEBP =>
                  (written.format = WEBP /\ PathSuffix(reply.returned) = DotWebp)

\* C19: with no output format given, the result is written in the format of
\* the input: PNG for .png, JPEG for .jpg and .jpeg, WEBP for .webp.
C19_OriginalFormatKept ==
    (Saved /\ ~Truthy(call.output_format)) =>
        LET ext == Lower(PathSuffix(call.input_path))
            written == fs[reply.returned]
        IN  /\ ext = DotPng => written.format = PNG
            /\ ext \in {DotJpg, DotJpeg} => written.format = JPEG
            /\ ext = DotWebp => written.format = WEBP

----------------------------------------------------------------------------
(* Every encode path *)

Called == call.fn # "none"

\* C16: on every encode path an image handed to the JPEG encoder has no alpha
\* channel: an RGBA or LA image is flattened first, for the name JPG as for
\* the name JPEG.
C16_AlphaNeverToJpeg ==
    Called =>
        \A i \in DOMAIN reply.calls :
            reply.calls[i].format = JPEG => reply.calls[i].mode \notin {"RGBA", "LA"}

\* the name is a str that no encode path knows
Unrecognised(output_format) ==
    Truthy(output_format) /\ Upper(output_format) \notin {PNG, JPG, JPEG, WEBP}

\* the files and zip entries the call wrote: their names and contents
Written ==
    LET new == {q \in DOMAIN fs : q \notin DOMAIN InitialFiles}
    IN  UNION {IF fs[q].kind = "Zip"
               THEN {fs[q].entries[i] : i \in DOMAIN fs[q].entries}
               ELSE {[name |-> q.name, content |-> fs[q]]} : q \in new}

\* every file written is of the format, under the extension
WrittenAs(format, extension) ==
    /\ \A i \in DOMAIN reply.calls : reply.calls[i].format = format
    /\ \A w \in Written :
          /\ w.content.format = format
          /\ PathSuffix([name |-> w.name]) = extension

\* C18 as stated: for a name that is not recognised every encode path, of the
\* command line and of the UI, writes PNG under .png and does not fail.
C18_UnrecognisedGivesPng ==
    (Called /\ Unrecognised(call.output_format)) =>
        /\ reply.returned \notin {AttributeError}
        /\ reply.returned = OSError => TargetDir \in ReadOnly
        /\ WrittenAs(PNG, DotPng)

\* C18: for a name that is not recognised no encode path fails on the name:
\* save_image_with_suffix writes PNG under .png, and the encode paths of the
\* UI (the zip file, the download and the gallery files) write WEBP under
\* .webp.
C18_UnrecognisedGivesDefault ==
    (Called /\ Unrecognised(call.output_format)) =>
        IF call.fn = "save_image_with_suffix"
        THEN /\ reply.returned = OSError => TargetDir \in ReadOnly
             /\ WrittenAs(PNG, DotPng)
        ELSE /\ reply.returned \notin {AttributeError, OSError}
             /\ WrittenAs(WEBP, DotWebp)

\* d1/a.png uploaded for expansion with the name BMP: a zip file and a gallery
\* file, both WEBP
C18_Witness ==
    /\ call.fn = "process_files_expand"
    /\ call.output_format = BMP
    /\ Len(call.files) = 1
    /\ reply.returned \notin {AttributeError, OSError, UnidentifiedImageError}
    /\ reply.returned.zip # None
    /\ Len(reply.returned.gallery) = 1
    /\ Len(reply.calls) = 2
    /\ \E w \in Written : w.content.format = WEBP

----------------------------------------------------------------------------
(* The command line *)

\* the directory the output of an input belongs in
TargetOf(path) == IF argv.output_dir = NoDir THEN path.parent ELSE argv.output_dir

\* the input can be loaded and transformed, and its output written
Succeeds(path) == InitialFiles[path].kind = "File" /\ TargetOf(path) \notin ReadOnly

\* the inputs of the first n that succeed, in input order
SucceededOf(n) == SelectSeq(SubSeq(all_input_paths, 1, n), Succeeds)

SuffixOf(operation) == IF operation = "enlarge" THEN EnlargeSuffix ELSE RestoreSuffix

\* the sequence begins with the prefix
BeginsWith(name, prefix) ==
    Len(prefix) <= Len(name) /\ SubSeq(name, 1, Len(prefix)) = prefix

\* the path is an output file of the input
IsOutputOf(path, input) ==
    /\ path \in DOMAIN fs
    /\ fs[path].kind = "File"
    /\ path.parent = TargetOf(input)
    /\ BeginsWith(path.name, PathStem(input) \o SuffixOf(argv.operation))

BatchReturned == pc = "exit" /\ all_input_paths # <<>>

\* C13: an input that fails does not stop the batch.  The inputs are attempted
\* one after another in input order, every one of them by the time the batch
\* returns, and successful_outputs holds exactly one output path for each
\* input so far that succeeded, in input order, and nothing for the others.
C13_BatchContinues ==
    pc \in {"process", "exit"} =>
        /\ Len(log) <= Len(all_input_paths)
        /\ \A i \in DOMAIN log : log[i].input = all_input_paths[i]
        /\ BatchReturned => Len(log) = Len(all_input_paths)
        /\ Len(successful_outputs) = Len(SucceededOf(Len(log)))
        /\ \A i \in DOMAIN successful_outputs :
              IsOutputOf(successful_outputs[i], SucceededOf(Len(log))[i])
        /\ \A i \in DOMAIN log : log[i].outcome = "ok" <=> Succeeds(log[i].input)

\* d1 enlarged: a.png and a.jpg succeed, t.png raises in the transform, and
\* c.webp after it succeeds
C13_Witness ==
    /\ BatchReturned
    /\ argv.operation = "enlarge"
    /\ argv.input = <<Dir("d1")>>
    /\ Len(log) = 4
    /\ log[3].outcome = "transform_error"
    /\ log[4].outcome = "ok"
    /\ Len(successful_outputs) = 3
    /\ successful_outputs[3].name = <<"c", "-", "e", "n", "l", "a", "r", "g", "e", ".", "p", "n", "g">>

\* C14 as stated: main exits with a status other than zero when an input
\* collected failed, and with zero when every input collected succeeded.
C14_ZeroWhenNoneFailed ==
    pc = "exit" =>
        /\ (\E i \in DOMAIN all_input_paths : ~Succeeds(all_input_paths[i]))
              => exit_status # 0
        /\ (\A i \in DOMAIN all_input_paths : Succeeds(all_input_paths[i]))
              => exit_status = 0

\* C14: main exits with a status other than zero when an input collected
\* failed and when no input was collected at all, and with zero when at least
\* one input was collected and every one succeeded.
C14_ExitStatus ==
    pc = "exit" =>
        /\ exit_status \in {0, 1}
        /\ exit_status = 0 <=>
              /\ all_input_paths # <<>>
              /\ \A i \in DOMAIN all_input_paths : Succeeds(all_input_paths[i])

\* a run that ends with 1 after one of its two inputs failed, and (in another
\* behaviour) a run that ends with 0
C14_Witness ==
    /\ pc = "exit"
    /\ Len(all_input_paths) = 2
    /\ Len(successful_outputs) = 1
    /\ log[2].outcome = "open_error"
    /\ exit_status = 1

\* C20: an output file is written only after the transform of its input has
\* returned: the iteration of an input whose transform raises leaves every
\* file as it was, and an iteration that changes a file is one whose input
\* was loaded, transformed and saved.
C20_WrittenAfterTransform ==
    [][Len(log') = Len(log) + 1 =>
          /\ log'[Len(log')].outcome = "transform_error" => fs' = fs
          /\ fs' # fs => log'[Len(log')].outcome = "ok"]_vars

\* the transform of d1/t.png raised, and the files are those there were
C20_Witness ==
    /\ pc = "process"
    /\ Len(log) = 1
    /\ log[1].input = Join("d1", <<"t", ".", "p", "n", "g">>)
    /\ log[1].outcome = "transform_error"
    /\ fs = InitialFiles

----------------------------------------------------------------------------
(* The arithmetic of the sizes (Spec) *)

\* q >= 0 rounded to the nearest integer, a half away from zero
RoundHalfAwayFromZero(q) == (2 * q[1] + q[2]) \div (2 * q[2])

\* the fractional part of q >= 0 is exactly 1/2
IsHalf(q) == 2 * (q[1] % q[2]) = q[2]

\* C21: for an image of positive size w2 x h2, w2 / 1.1 and h2 / 1.1 never
\* have fractional part 1/2, so the size crop_image reconstructs with
\* round(), which rounds a half to even, is the size rounding a half away
\* from zero gives.
C21_RoundingRulesAgree ==
    (Cropped /\ Positive(arg)) =>
        /\ ~IsHalf(DivideByOnePointOne(arg.size[1]))
        /\ ~IsHalf(DivideByOnePointOne(arg.size[2]))
        /\ original_width(arg) = RoundHalfAwayFromZero(<<10 * arg.size[1], 11>>)
        /\ original_height(arg) = RoundHalfAwayFromZero(<<10 * arg.size[2], 11>>)
        /\ IsImage(ret)
        /\ ret.size = <<RoundHalfAwayFromZero(<<10 * arg.size[1], 11>>),
                        RoundHalfAwayFromZero(<<10 * arg.size[2], 11>>)>>

\* 5 / 1.1 = 4.54... and 6 / 1.1 = 5.45..., the nearest there is to a half
C21_Witness ==
    /\ Cropped
    /\ arg.size = <<5, 6>>
    /\ IsImage(ret) /\ ret.size = <<5, 5>>

\* the box lies within the image
BoxWithin(box, size) ==
    /\ 0 <= box[1] /\ box[1] <= box[3] /\ box[3] <= size[1]
    /\ 0 <= box[2] /\ box[2] <= box[4] /\ box[4] <= size[2]

\* C22: for an image of width >= 1 and height >= 1 the size crop_image
\* reconstructs is at least 1 and at most the current size on each axis:
\* crop_image does not raise, and its crop box lies within the image.
C22_CropSizeWithinImage ==
    (Cropped /\ Positive(arg)) =>
        /\ ret # ValueError
        /\ IsImage(ret)
        /\ 1 <= ret.size[1] /\ ret.size[1] <= arg.size[1]
        /\ 1 <= ret.size[2] /\ ret.size[2] <= arg.size[2]
        /\ BoxWithin(crop_box(arg), arg.size)

\* the smallest image: 1 / 1.1 = 0.909... rounds to 1
C22_Witness ==
    /\ Cropped
    /\ arg.size = <<1, 1>>
    /\ IsImage(ret) /\ ret.size = <<1, 1>>

\* w when w mod 10 <= 5, w - 1 when w mod 10 >= 6
SameOrOneLess(w) == IF w % 10 <= 5 THEN w ELSE w - 1

\* C23: crop_image(expand_image(image)) of an image of positive size w x h
\* has, on each axis, the size of the image when that size mod 10 is at most
\* 5 and 1 pixel less when it is 6 or more; it is never larger.
C23_RoundTripSize ==
    (RoundTrip /\ Positive(origin)) =>
        /\ IsImage(ret)
        /\ ret.size[1] = SameOrOneLess(origin.size[1])
        /\ ret.size[2] = SameOrOneLess(origin.size[2])
        /\ ret.size[1] <= origin.size[1]
        /\ ret.size[2] <= origin.size[2]

C23_Witness ==
    /\ RoundTrip
    /\ origin.size = <<16, 5>>
    /\ arg.size = <<17, 5>>
    /\ IsImage(ret) /\ ret.size = <<15, 5>>

----------------------------------------------------------------------------
(* The repeated round trip (CycleSpec) *)

ExpandFirst == ops # <<>> /\ ops[1] = "expand_image"

\* the calls that end a cycle of expand then crop
CycleEnds == {n \in 2 .. Len(ops) : ops[n] = "crop_image"}

\* C24: repeating expand, crop, expand, crop, ... from an image of positive
\* size, no cycle makes an axis larger, the cycles after the fourth leave
\* the size as it is, every size is within 4 pixels of the size at the start
\* on each axis, and no axis reaches 0.
C24_DriftSettles ==
    (Positive(origin) /\ ExpandFirst) =>
        \A n \in CycleEnds :
            /\ \A i \in 1 .. 2 :
                  /\ sizes[n][i] <= SizeBefore(n - 1)[i]
                  /\ sizes[n][i] >= 1
                  /\ origin.size[i] - sizes[n][i] <= 4
            /\ n > 2 * 4 => sizes[n] = sizes[n - 2]

\* 19 x 9 loses a pixel on each axis in each of four cycles, and none in
\* the fifth
C24_Witness ==
    /\ IsImage(origin) /\ origin.size = <<19, 9>>
    /\ ExpandFirst
    /\ Len(ops) = 10
    /\ sizes[2] = <<18, 8>>
    /\ sizes[6] = <<16, 6>>
    /\ sizes[8] = <<15, 5>>
    /\ sizes[10] = <<15, 5>>

----------------------------------------------------------------------------
(* The batch handlers of the UI (EncodeSpec) *)

BatchHandled ==
    /\ call.fn \in {"process_files_expand", "process_files_crop"}
    /\ reply.returned \notin {OSError, AttributeError, UnidentifiedImageError}

\* the upload can be loaded and transformed
Loadable(path) == InitialFiles[path].kind = "File"

\* the uploads the batch did not skip, in their order: gallery file i is
\* made from the i-th of them
Sources == SelectSeq(call.files, Loadable)

HandlerSuffix == IF call.fn = "process_files_expand" THEN EnlargeSuffix ELSE RestoreSuffix

\* C25: every gallery file of process_files_expand and process_files_crop is
\* named <stem>-enlarge or <stem>-restore with the stem of the upload it was
\* made from, also when an upload before it was skipped.
C25_GalleryNamedAfterSource ==
    BatchHandled =>
        /\ Len(reply.returned.gallery) = Len(Sources)
        /\ \A i \in DOMAIN reply.returned.gallery :
              BeginsWith(reply.returned.gallery[i].name,
                         PathStem(Sources[i]) \o HandlerSuffix)

----------------------------------------------------------------------------
(* The outputs of one run of the command line (CliSpec) *)

\* C26: within one run, inputs that are distinct files are written to
\* distinct output paths, so that no output of the run is overwritten by the
\* output of another input.
C26_DistinctOutputs ==
    pc \in {"process", "exit"} =>
        \A i, j \in DOMAIN successful_outputs :
            SucceededOf(Len(log))[i] # SucceededOf(Len(log))[j]
                => successful_outputs[i] # successful_outputs[j]

----------------------------------------------------------------------------
(* The single-image requests of a session (SessionSpec) *)

\* request i has returned a download file
HasDownload(i) ==
    /\ requests[i].pc = "returned"
    /\ requests[i].returned # OSError
    /\ requests[i].returned.file # None

\* C27: the download file returned to a request holds the processed image
\* of that request, whatever other requests were served before or after it:
\* no request's file is replaced by another's.
C27_OwnImageAtPath ==
    \A i \in DOMAIN requests :
        HasDownload(i) =>
            /\ requests[i].returned.file \in DOMAIN fs
            /\ fs[requests[i].returned.file].image = requests[i].returned.image

====
